---- MODULE Spec2Model ----
(***************************************************************************)
(* Model of the DroneSphere agent's command execution engine               *)
(* (agent/executor.py) together with the parts of the command registry,    *)
(* the shared models and the command handlers that decide its behaviour.   *)
(*                                                                         *)
(* The agent runs on one asyncio event loop: a coroutine runs atomically   *)
(* from one await that really suspends to the next.  Every action below is *)
(* one such atomic stretch of a coroutine.                                 *)
(***************************************************************************)
EXTENDS Integers, Sequences, FiniteSets, TLC

\* ---------------------------------------------------------------- bounds
\* Longest command list handed to execute_sequence.
MaxLen == 2
\* Number of concurrent callers of execute_sequence (HTTP requests in flight).
NumCallers == 2

Callers == 1..NumCallers

\* ------------------------------------------------------- shared/models.py
\* Members of the CommandMode enum.
CommandMode == {"critical", "continue", "skip"}

\* `cmd.mode == CommandMode.<member>`: looking up a member the enum does not
\* define raises AttributeError before any comparison is made.
ModeIs(mode, member) ==
  IF member \notin CommandMode THEN "AttributeError"
  ELSE IF mode = member THEN "true" ELSE "false"

\* CommandResult(success, message, error).  `cmd` is a ghost field: the index
\* of the command of the sequence the result was appended for.
CommandResult(i, success, error) == [cmd |-> i, success |-> success, error |-> error]

\* ------------------------------------------------------ command_registry.py
\* registry.commands: the names with a handler class (one per handler file
\* that the model's inputs use).
commands == {"wait", "takeoff"}

\* registry.validators: the names with a JSON-schema validator.
validators == {"wait", "takeoff"}

\* Parameter maps, by what the two validations make of them:
\*   valid            accepted by the schema and by the handler
\*   schema_invalid   rejected by the registry's schema validator
\*   handler_invalid  accepted by the schema, rejected by the handler's own
\*                    validate_params (ValueError in the constructor)
Params == {"valid", "schema_invalid", "handler_invalid"}

get_command_class(name) == IF name \in commands THEN name ELSE "None"

\* The list of validation errors is modelled by whether it is empty.
validate_params(name, params) ==
  IF name \notin validators THEN FALSE
  ELSE params = "schema_invalid"

\* BaseCommand.__init__ runs the handler's validate_params, which raises
\* ValueError on a parameter map it rejects.
ConstructorRaises(name, params) == params = "handler_invalid"

\* ----------------------------------------------------------------- inputs
Command(name, params, mode) == [name |-> name, params |-> params, mode |-> mode]

\* Every name and every kind of parameter map in the CRITICAL and in a
\* non-CRITICAL mode; SKIP with the takeoff the validator rejects, the one
\* failure branch of the executor that does not test for ABORT_ON_FAIL.
CommandUniverse ==
  {Command("frobnicate", "valid", m) : m \in {"critical", "continue"}}
  \cup {Command("wait", "valid", "continue")}
  \cup {Command("takeoff", "schema_invalid", m) : m \in CommandMode}
  \cup {Command("takeoff", p, m) : p \in {"valid", "handler_invalid"},
                                  m \in {"critical", "continue"}}

SeqsUpTo(n) == UNION {[1..k -> CommandUniverse] : k \in 0..n}

Sequences == SeqsUpTo(MaxLen)

\* The first caller submits any sequence of the universe; the callers that
\* compete with it submit a single wait (which suspends the call in its
\* handler).
ShortSequences == { <<Command("wait", "valid", "continue")>> }

Inputs(t) == IF t = 1 THEN Sequences ELSE ShortSequences

\* ------------------------------------------------------------------ state
VARIABLES
  executing,         \* CommandExecutor.executing
  current_sequence,  \* CommandExecutor.current_sequence
  connected,         \* backend.connected
  pc,                \* per caller: where its execute_sequence call stands
  cmds,              \* per caller: the `commands` argument
  idx,               \* per caller: the loop index (1-based)
  results,           \* per caller: the local `results` list
  log,               \* per caller: ghost log of what the call did
  apc,               \* the abort_sequence caller's position
  h,                 \* the frame of one command handler's execute()
  px4_origin,        \* MAVSDKBackend._px4_origin
  origin_set,        \* MAVSDKBackend._origin_set
  telemetry_position,\* MAVSDKBackend._telemetry_state.position
  collectors,        \* running _collect_position tasks in _telemetry_tasks
  untracked,         \* running _collect_position tasks dropped from the set
  dpc,               \* where a disconnect() call stands
  position_updates,  \* the position samples processed since the last reset
  call,              \* the frame of one MAVSDKBackend.connect() call
  request,           \* the frame of one POST /commands request
  registry,          \* a CommandRegistry and the last call made on it
  goto,              \* a GotoCommand from its construction to its action
  telemetry_state,   \* MAVSDKBackend._telemetry_state, the six collected slots
  processed          \* the stream of the last message and the errors logged

\* The executor's own state, the backend's state, and all of it.
execvars == <<executing, current_sequence, pc, cmds, idx, results, log, apc>>
bvars == <<px4_origin, origin_set, telemetry_position, collectors, untracked, dpc,
          position_updates, call>>
vars == <<executing, current_sequence, connected, pc, cmds, idx, results, log, apc,
          h, px4_origin, origin_set, telemetry_position, collectors, untracked, dpc,
          position_updates, call, request, registry, goto,
          telemetry_state, processed>>
\* What the executor, the handlers, the backend and the endpoint leave alone.
auxvars == <<registry, goto, telemetry_state, processed>>

Ev(e, i) == [ev |-> e, cmd |-> i]

\* A call is in flight from its admission until it returns or raises.
InFlight(t) == pc[t] \in {"handler", "rtl_action", "rtl_sleep"}
Exited(t) == pc[t] \in {"returned", "raised"}

Local(p, i, res, lg) == [pc |-> p, idx |-> i, results |-> res, log |-> lg]

\* ------------------------------------------------------------- executor.py
\* Variant: the outcome of the emergency RTL is appended to the results.
EmergencyRtl_AppendsOutcome(i, res, lg, conn) ==
  LET lg1 == Append(lg, Ev("emergency_rtl", i)) IN
  IF ~conn
  THEN Local("returned", i,
             Append(res, CommandResult(i, FALSE, "backend_disconnected")), lg1)
  ELSE Local("rtl_action", i, res, Append(lg1, Ev("return_to_launch", i)))

\* _emergency_rtl up to its first suspension.  RTLCommand.execute returns
\* backend_disconnected at once when the backend is not connected; otherwise
\* it awaits drone.action.return_to_launch().  The RTL result is dropped and
\* the caller breaks out of the loop, so a finished RTL ends the call.
EmergencyRtl(i, res, lg, conn) ==
  LET lg1 == Append(lg, Ev("emergency_rtl", i)) IN
  IF ~conn THEN Local("returned", i, res, lg1)
  ELSE Local("rtl_action", i, res, Append(lg1, Ev("return_to_launch", i)))

\* The failure branches of the loop body; each names what the loop does next:
\*   "rtl"      await self._emergency_rtl(); break
\*   "break"    break
\*   "continue" go on with the next command
\*   "except"   AttributeError raised inside the inner try (caught at `except`)
\*   "raise"    AttributeError raised outside the inner try: leaves the call
\* Variant: an unknown command triggers the RTL in every mode.
OnUnknown_RtlInEveryMode(mode) == "rtl"

\* Unknown command, lines 84-93.
OnUnknown(mode) ==
  IF ModeIs(mode, "critical") = "true" THEN "rtl"
  ELSE LET a == ModeIs(mode, "abort_on_fail") IN
       IF a = "AttributeError" THEN "raise"
       ELSE IF a = "true" THEN "break" ELSE "continue"

\* Variant: the validation branch written like the unknown-command branch,
\* with the ABORT_ON_FAIL comparison.
OnInvalid_AbortOnFail(mode) ==
  IF ModeIs(mode, "critical") = "true" THEN "rtl"
  ELSE LET a == ModeIs(mode, "abort_on_fail") IN
       IF a = "AttributeError" THEN "raise"
       ELSE IF a = "true" THEN "break" ELSE "continue"

\* Variant: the validation branch without the CRITICAL test.
OnInvalid_IgnoresCritical(mode) == "continue"

\* Validation errors, lines 105-111.
OnInvalid(mode) ==
  IF ModeIs(mode, "critical") = "true" THEN "rtl" ELSE "continue"

\* Handler result with success=false, lines 120-131 (inside the inner try).
OnFailedResult(mode) ==
  IF ModeIs(mode, "critical") = "true" THEN "rtl"
  ELSE LET a == ModeIs(mode, "abort_on_fail") IN
       IF a = "AttributeError" THEN "except"
       ELSE IF a = "true" THEN "break" ELSE "continue"

\* Variant: the exception handler stops a CRITICAL sequence without the RTL.
OnException_NoRtl(mode) ==
  IF ModeIs(mode, "critical") = "true" THEN "break"
  ELSE LET a == ModeIs(mode, "abort_on_fail") IN
       IF a = "AttributeError" THEN "raise"
       ELSE IF a = "true" THEN "break" ELSE "continue"

\* Exception handler, lines 135-150 (an exception raised here leaves the call).
OnException(mode) ==
  IF ModeIs(mode, "critical") = "true" THEN "rtl"
  ELSE LET a == ModeIs(mode, "abort_on_fail") IN
       IF a = "AttributeError" THEN "raise"
       ELSE IF a = "true" THEN "break" ELSE "continue"

RECURSIVE Loop(_, _, _, _, _)

\* Carry out the decision taken for command i.
Apply(decision, cs, i, res, lg, conn) ==
  CASE decision = "rtl"      -> EmergencyRtl(i, res, lg, conn)
    [] decision = "break"    -> Local("returned", i, res, lg)
    [] decision = "continue" -> Loop(cs, i + 1, res, lg, conn)
    [] decision = "raise"    -> Local("raised", i, res, lg)

\* `except Exception as e` of the loop body, lines 135-150: append a failure
\* carrying str(e), then apply the mode.
Except(err, cs, i, res, lg, conn) ==
  Apply(OnException(cs[i].mode), cs, i,
        Append(res, CommandResult(i, FALSE, err)), lg, conn)

\* Lines 117-133: the handler returned `success`/`error` for command i.
\* Variant: the handler's coroutine is started but not awaited; the loop moves
\* on to the next command while the handler is still running.
AfterResult_NotAwaited(success, error, cs, i, res, lg0, conn) ==
  Loop(cs, i + 1, Append(res, CommandResult(i, success, error)), lg0, conn)

AfterResult(success, error, cs, i, res, lg0, conn) ==
  LET res1 == Append(res, CommandResult(i, success, error))
      lg == Append(lg0, Ev("resolved", i))
  IN
  IF success THEN Loop(cs, i + 1, res1, lg, conn)
  ELSE LET d == OnFailedResult(cs[i].mode) IN
       IF d = "except" THEN Except("ABORT_ON_FAIL", cs, i, res1, lg, conn)
       ELSE Apply(d, cs, i, res1, lg, conn)

\* Variant: only takeoff checks the link.
ChecksConnected_OnlyTakeoff(name) == name = "takeoff"

\* Variant: wait checks the link too.
ChecksConnected_WaitToo(name) == TRUE

\* Every handler but wait first checks backend.connected in execute.
ChecksConnected(name) == name # "wait"

\* The for loop of execute_sequence from command i up to the next await that
\* suspends, or up to the end of the call.
Loop(cs, i, res, lg, conn) ==
  IF i > Len(cs) THEN Local("returned", i, res, lg)
  ELSE
    LET cmd == cs[i]
        lg1 == Append(lg, Ev("lookup", i))
    IN
    IF get_command_class(cmd.name) = "None" THEN
      Apply(OnUnknown(cmd.mode), cs, i,
            Append(res, CommandResult(i, FALSE, "unknown_command")), lg1, conn)
    ELSE
      LET lg2 == Append(lg1, Ev("validate", i)) IN
      IF validate_params(cmd.name, cmd.params) THEN
        Apply(OnInvalid(cmd.mode), cs, i,
              Append(res, CommandResult(i, FALSE, "invalid_parameters")), lg2, conn)
      ELSE
        LET lg3 == Append(lg2, Ev("construct", i)) IN
        IF ConstructorRaises(cmd.name, cmd.params) THEN
          Except("ValueError", cs, i, res, lg3, conn)
        ELSE
          LET lg4 == Append(lg3, Ev("execute", i)) IN
          IF ChecksConnected(cmd.name) /\ ~conn THEN
            AfterResult(FALSE, "backend_disconnected", cs, i, res, lg4, conn)
          ELSE Local("handler", i, res, lg4)

\* Variant: the guard on self.executing left out.
Admits_Always(flag) == TRUE

\* The `if self.executing: raise RuntimeError` guard, lines 61-62.
Admits(flag) == ~flag

\* The caller's next local state is installed; when the call has left the
\* try block the finally clause (lines 154-156) has run.
Install(t, l) ==
  /\ pc' = [pc EXCEPT ![t] = l.pc]
  /\ idx' = [idx EXCEPT ![t] = l.idx]
  /\ results' = [results EXCEPT ![t] = l.results]
  /\ log' = [log EXCEPT ![t] = l.log]

Finally(l, flag, cur) ==
  IF l.pc \in {"returned", "raised"}
  THEN /\ executing' = FALSE
       /\ current_sequence' = <<>>
  ELSE /\ executing' = flag
       /\ current_sequence' = cur

\* execute_sequence(commands) called by t: rejected, or admitted and run up to
\* the first suspension.
ExecuteSequence(t) ==
  /\ pc[t] = "idle"
  /\ \E cs \in Inputs(t) :
       /\ cmds' = [cmds EXCEPT ![t] = cs]
       /\ IF ~Admits(executing)
          THEN /\ pc' = [pc EXCEPT ![t] = "rejected"]
               /\ UNCHANGED <<executing, current_sequence, idx, results, log>>
          ELSE LET l == Loop(cs, 1, <<>>, <<>>, connected) IN
               /\ Install(t, l)
               /\ Finally(l, TRUE, cs)
  /\ UNCHANGED <<connected, apc, h, request, auxvars, bvars>>

\* `await command_instance.execute(self.backend)` resolves for caller t.
\* wait only sleeps and always reports success; a flight handler reports what
\* the autopilot made of its actions.
HandlerOutcomes(name) ==
  IF name = "wait" THEN {<<TRUE, "None">>}
  ELSE {<<TRUE, "None">>, <<FALSE, "action_failed">>}

HandlerResolves(t) ==
  /\ pc[t] = "handler"
  /\ \E o \in HandlerOutcomes(cmds[t][idx[t]].name) :
       LET l == AfterResult(o[1], o[2], cmds[t], idx[t], results[t], log[t], connected) IN
       /\ Install(t, l)
       /\ Finally(l, executing, current_sequence)
  /\ UNCHANGED <<connected, cmds, apc, h, request, auxvars, bvars>>

\* RTLCommand.execute inside _emergency_rtl: return_to_launch() resolves.  A
\* refusal is caught inside the handler; success goes on to the 15 s sleep.
RtlActionResolves(t) ==
  /\ pc[t] = "rtl_action"
  /\ \E ok \in BOOLEAN :
       LET l == Local(IF ok THEN "rtl_sleep" ELSE "returned", idx[t], results[t], log[t]) IN
       /\ Install(t, l)
       /\ Finally(l, executing, current_sequence)
  /\ UNCHANGED <<connected, cmds, apc, h, request, auxvars, bvars>>

RtlSleepDone(t) ==
  /\ pc[t] = "rtl_sleep"
  /\ LET l == Local("returned", idx[t], results[t], log[t]) IN
       /\ Install(t, l)
       /\ Finally(l, executing, current_sequence)
  /\ UNCHANGED <<connected, cmds, apc, h, request, auxvars, bvars>>

\* abort_sequence, lines 193-208, up to the first suspension of its RTL.
AbortSequence ==
  /\ apc = "idle"
  /\ IF ~executing
     THEN UNCHANGED <<executing, current_sequence, apc>>
     ELSE /\ executing' = FALSE
          /\ current_sequence' = <<>>
          /\ apc' = IF connected THEN "rtl_action" ELSE "idle"
  /\ UNCHANGED <<connected, pc, cmds, idx, results, log, h, request, auxvars, bvars>>

AbortRtlActionResolves ==
  /\ apc = "rtl_action"
  /\ \E ok \in BOOLEAN : apc' = IF ok THEN "rtl_sleep" ELSE "idle"
  /\ UNCHANGED <<executing, current_sequence, connected, pc, cmds, idx, results, log, h, request, auxvars, bvars>>

AbortRtlSleepDone ==
  /\ apc = "rtl_sleep"
  /\ apc' = "idle"
  /\ UNCHANGED <<executing, current_sequence, connected, pc, cmds, idx, results, log, h, request, auxvars, bvars>>

\* The backend's connected flag: set by a successful connect(), reset by
\* disconnect().
BackendConnects ==
  /\ ~connected
  /\ connected' = TRUE
  /\ UNCHANGED <<execvars, h, request, auxvars, bvars>>

BackendDisconnects ==
  /\ connected
  /\ connected' = FALSE
  /\ UNCHANGED <<execvars, h, request, auxvars, bvars>>

\* No handler frame exists: no execute() has been entered.
EmptyParams == [k \in {} |-> 0]

HandlerIdle ==
  [name |-> "none", params |-> EmptyParams, pc |-> "idle",
   result |-> [success |-> FALSE, error |-> "None"],
   dispatched |-> <<>>, reads |-> {}, conn |-> FALSE,
   armed |-> "unread", alt |-> -1,
   elapsed |-> 0, polled |-> FALSE, last |-> [n |-> 0, v |-> 0],
   heading |-> 0, diff |-> 0, exc |-> "None", takeoff_altitude |-> 0]

\* A position sample as _collect_position stores it; NoPosition is None.
NoPosition == [latitude |-> 0, longitude |-> 0, altitude |-> 0, valid |-> FALSE]

\* No connect() has been called.  `session` and `polled` record that a dial
\* has returned and that a connection-state poll has reported is_connected;
\* connection_string is MAVSDKBackend._connection_string, None unless the
\* constructor is given one.
ConnectIdle ==
  [pc |-> "idle", env |-> "None", dialled |-> <<>>, ret |-> "none",
   session |-> FALSE, polled |-> FALSE, connection_string |-> "None"]

\* No request is being served.
RequestIdle ==
  [pc |-> "idle", malformed |-> FALSE, target_drone |-> 0,
   executor |-> FALSE, backend |-> FALSE, conn |-> FALSE, connect_calls |-> 0, connect_result |-> "none", dispatched |-> FALSE,
   results |-> <<>>, raised |-> "None", status |-> 0,
   body |-> [success |-> FALSE, total_commands |-> 0, successful_commands |-> 0]]

\* CommandRegistry.__init__: three empty maps; no call has been made.
RegistryIdle ==
  [commands |-> {}, schemas |-> {}, validators |-> {},
   asked |-> "none", name |-> "none", params |-> "valid",
   errors |-> <<>>, class |-> "None", info |-> {}]

\* No GotoCommand has been constructed.  `validated` is the coordinate mode
\* validate_params range-checked, `branch` the one execute took; `origin` is
\* the origin handed to the NED conversion and `target` what goto_location
\* is called with.
GotoIdle ==
  [pc |-> "idle", params |-> EmptyParams, validated |-> "None", branch |-> "None",
   result |-> [success |-> FALSE, error |-> "None"], exc |-> "None",
   reported |-> "None", dispatched |-> <<>>, conn |-> FALSE,
   origin |-> NoPosition, fetched |-> "none", latched |-> NoPosition,
   target |-> <<>>]

\* The streams _start_telemetry_collection starts a collector for; each
\* fills the slot of TelemetryState of the same name.
Streams == {"position", "attitude", "battery", "flight_mode", "gps_info", "armed"}

\* TelemetryState(): every slot is None (the empty map here).
TelemetryStateInit == [s \in Streams |-> EmptyParams]

\* The objects the executor's model does not look into.
AuxInit ==
  /\ registry = RegistryIdle
  /\ goto = GotoIdle
  /\ telemetry_state = TelemetryStateInit
  /\ processed = [stream |-> "none", errors |-> 0]

\* MAVSDKBackend.__init__, lines 85-94 (connected apart).
BackendInit ==
  /\ px4_origin = NoPosition
  /\ origin_set = FALSE
  /\ telemetry_position = NoPosition
  /\ collectors = 0
  /\ untracked = 0
  /\ dpc = "idle"
  /\ position_updates = <<>>
  /\ call = ConnectIdle

\* CommandExecutor.__init__, lines 28-31.
ExecutorInit ==
  /\ executing = FALSE
  /\ current_sequence = <<>>
  /\ pc = [t \in Callers |-> "idle"]
  /\ cmds = [t \in Callers |-> <<>>]
  /\ idx = [t \in Callers |-> 0]
  /\ results = [t \in Callers |-> <<>>]
  /\ log = [t \in Callers |-> <<>>]
  /\ apc = "idle"

\* The executor is handed a backend that is connected or not.
Init ==
  /\ ExecutorInit
  /\ connected \in BOOLEAN
  /\ h = HandlerIdle
  /\ BackendInit
  /\ request = RequestIdle
  /\ AuxInit

Next ==
  \/ \E t \in Callers : ExecuteSequence(t)
  \/ \E t \in Callers : HandlerResolves(t)
  \/ \E t \in Callers : RtlActionResolves(t)
  \/ \E t \in Callers : RtlSleepDone(t)
  \/ AbortSequence
  \/ AbortRtlActionResolves
  \/ AbortRtlSleepDone
  \/ BackendConnects
  \/ BackendDisconnects

Spec == Init /\ [][Next]_vars

\* =============================================================== handlers
\* One command handler's execute(backend), agent/commands/*.py.  The frame h
\* holds the handler's locals; `conn`, `armed`, `alt`, `last`, `diff`,
\* `dispatched` and `reads` record what the handler observed and did.
Abs(x) == IF x < 0 THEN -x ELSE x

Handlers == {"takeoff", "land", "rtl", "goto", "yaw", "wait"}

\* Relative altitudes are in decimetres: 5 is the handlers' 0.5 m.
GroundThreshold == 5
Altitudes == {0, 4, 5, 6, 50}

\* goto: timeout = 60.0 s; yaw: timeout = 30.0 s; both sleep check_interval =
\* 0.5 s per round, i.e. two rounds per second.
GotoTimeout == 60
YawTimeout == 30
RoundsPerSecond == 2
\* yaw: tolerance = 2.0 degrees.
Tolerance == 2
\* goto: self.params.get("acceptance_radius", 2.0), metres.
DefaultAcceptanceRadius == 2

\* Parameter maps the handlers are constructed with (all pass validation).
GotoParams ==
  {[latitude |-> 47, longitude |-> 8, altitude |-> 500]}
  \cup {[latitude |-> 47, longitude |-> 8, altitude |-> 500, acceptance_radius |-> r] :
          r \in {1, 3}}
YawParams == {[heading |-> x] : x \in {0, 1, 180, 359}}

ParamsOf(name) ==
  CASE name = "goto"    -> GotoParams
    [] name = "yaw"     -> YawParams
    [] name = "takeoff" -> {[altitude |-> 10], [altitude |-> 20]}
    [] name = "wait"    -> {[duration |-> 1]}
    [] OTHER            -> {EmptyParams}

\* dict.get(key, default)
Get(params, key, default) == IF key \in DOMAIN params THEN params[key] ELSE default

\* What the position stream delivers while goto monitors: the sample's offset
\* from the target in metres, n along the ground (the haversine term) and v in
\* altitude.
PolledOffsets ==
  {[n |-> 0, v |-> 0], [n |-> 2, v |-> 0], [n |-> 2, v |-> 1],
   [n |-> 0, v |-> -3], [n |-> 3, v |-> 0]}

\* What the attitude stream delivers while yaw monitors: yaw_deg.
YawDegs == {-180, -179, -3, -2, -1, 0, 1, 2, 3, 4, 177, 178, 180}

\* Variant: the vertical distance left out of the arrival distance.
calculate_distance_Horizontal(p) == p.n * p.n

\* GotoCommand._calculate_distance, squared: horizontal_distance**2 +
\* vertical_distance**2 with vertical_distance = abs(alt2 - alt1).
calculate_distance(p) == p.n * p.n + Abs(p.v) * Abs(p.v)

\* `distance <= acceptance_radius`, goto.py:259, on the squares.
Arrived(p, radius) == calculate_distance(p) <= radius * radius

\* Variant: the difference taken without wrapping around +-180.
HeadingDiff_NoWrap(current_heading, heading) == Abs((current_heading - heading) % 360)

\* yaw.py:60: abs((current_heading - heading + 180) % 360 - 180)
HeadingDiff(current_heading, heading) ==
  Abs(((current_heading - heading + 180) % 360) - 180)

\* Variant: takeoff never takes the drone for airborne.
is_on_ground_Always(relative_alt) == TRUE

\* TakeoffCommand._check_ground_state: relative_alt < 0.5
is_on_ground(relative_alt) == relative_alt < GroundThreshold

\* Variant: land takes any altitude for airborne.
is_airborne_Always(relative_alt) == TRUE

\* LandCommand._check_airborne_state: relative_alt > 0.5
is_airborne(relative_alt) == relative_alt > GroundThreshold

\* Variant: the altitude test of _check_flight_state left out.
NotAirborneRaises_Never(relative_alt) == FALSE

\* _check_flight_state of goto and yaw: relative_altitude_m < 0.5 raises.
NotAirborneRaises(relative_alt) == relative_alt < GroundThreshold

\* The handler returns a CommandResult.
Done(f, success, error) ==
  [f EXCEPT !.pc = "done", !.result = [success |-> success, error |-> error]]

\* Variant: the exception leaves execute().
ExceptException_Escapes(f, e) == [f EXCEPT !.pc = "raised", !.exc = e]

\* `except Exception as e:` around the body of execute(): the exception e
\* raised in it becomes CommandResult(success=False, error=str(e)).
ExceptException(f, e) == Done([f EXCEPT !.exc = e], FALSE, e)

\* `await drone.action.<a>(...)` is entered.
Dispatch(f, a) == [f EXCEPT !.pc = "action", !.dispatched = Append(@, a)]

\* A telemetry stream is opened and awaited.
Read(f, stream, where) == [f EXCEPT !.pc = where, !.reads = @ \cup {stream}]

\* execute() from its entry to its first await.
Enter(name, params, conn) ==
  LET f == [HandlerIdle EXCEPT !.name = name, !.params = params, !.conn = conn] IN
  IF ChecksConnected(name) /\ ~conn THEN Done(f, FALSE, "backend_disconnected")
  ELSE CASE name = "wait"               -> [f EXCEPT !.pc = "sleep"]
         [] name = "rtl"                -> Dispatch(f, "return_to_launch")
         [] name \in {"takeoff", "land"} -> Read(f, "position", "read_position")
         [] name \in {"goto", "yaw"}     -> Read(f, "armed", "read_armed")

HandlerStarts ==
  /\ h.pc = "idle"
  /\ \E name \in Handlers : \E params \in ParamsOf(name) :
       h' = Enter(name, params, connected)
  /\ UNCHANGED <<execvars, connected, request, auxvars, bvars>>

\* goto/yaw _check_flight_state: the armed stream delivers.
ArmedDelivered ==
  /\ h.pc = "read_armed"
  /\ \E is_armed \in BOOLEAN :
       LET f == [h EXCEPT !.armed = IF is_armed THEN "true" ELSE "false"] IN
       h' = IF ~is_armed THEN ExceptException(f, "requires_armed")
            ELSE Read(f, "position", "read_position")
  /\ UNCHANGED <<execvars, connected, request, auxvars, bvars>>

\* The position stream delivers the sample the precondition is taken from.
PositionDelivered ==
  /\ h.pc = "read_position"
  /\ \E alt \in Altitudes :
       LET f == [h EXCEPT !.alt = alt] IN
       h' = CASE h.name = "takeoff" ->
                   IF ~is_on_ground(alt) THEN Done(f, TRUE, "None")
                   ELSE Dispatch(f, "arm")
              [] h.name = "land" ->
                   IF ~is_airborne(alt) THEN Done(f, TRUE, "None")
                   ELSE Dispatch(f, "land")
              [] h.name = "goto" ->
                   IF NotAirborneRaises(alt) THEN ExceptException(f, "requires_airborne")
                   ELSE Dispatch(f, "goto_location")
              [] h.name = "yaw" ->
                   IF NotAirborneRaises(alt) THEN ExceptException(f, "requires_airborne")
                   ELSE Dispatch(f, "set_current_heading")
  /\ UNCHANGED <<execvars, connected, request, auxvars, bvars>>

\* The monitor loops: `while elapsed < timeout`.
MonitorRounds(name) ==
  IF name = "goto" THEN GotoTimeout * RoundsPerSecond ELSE YawTimeout * RoundsPerSecond

\* The awaited autopilot action returns normally.
ActionSucceeds ==
  /\ h.pc = "action"
  /\ LET a == h.dispatched[Len(h.dispatched)] IN
     h' = CASE a = "arm" ->
                 Dispatch([h EXCEPT !.takeoff_altitude = Get(h.params, "altitude", 10)],
                          "set_takeoff_altitude")
            [] a = "set_takeoff_altitude" -> Dispatch(h, "takeoff")
            [] a \in {"takeoff", "land", "return_to_launch"} -> [h EXCEPT !.pc = "sleep"]
            [] a = "goto_location"        -> Read(h, "position", "poll")
            [] a = "set_current_heading"  -> Read(h, "attitude", "poll")
  /\ UNCHANGED <<execvars, connected, request, auxvars, bvars>>

\* Variant: a refused arm is passed over and the takeoff goes on.
ActionFails_ArmPassedOver ==
  /\ h.pc = "action"
  /\ h' = IF h.dispatched = <<"arm">>
          THEN Dispatch([h EXCEPT !.exc = "action_error"], "set_takeoff_altitude")
          ELSE ExceptException(h, "action_error")
  /\ UNCHANGED <<execvars, connected, request, auxvars, bvars>>

\* The awaited autopilot action raises; `except Exception` returns a failure.
ActionFails ==
  /\ h.pc = "action"
  /\ h' = ExceptException(h, "action_error")
  /\ UNCHANGED <<execvars, connected, request, auxvars, bvars>>

\* asyncio.sleep after the last action (takeoff 8 s, land 10 s, rtl 15 s), or
\* wait's sleep, is over.
SleepDone ==
  /\ h.pc = "sleep"
  /\ h' = Done(h, TRUE, "None")
  /\ UNCHANGED <<execvars, connected, request, auxvars, bvars>>

\* One round of a monitor loop: the stream delivers a sample.
PollDelivered ==
  /\ h.pc = "poll"
  /\ IF h.name = "goto"
     THEN \E p \in PolledOffsets :
            LET f == [h EXCEPT !.polled = TRUE, !.last = p] IN
            h' = IF Arrived(p, Get(h.params, "acceptance_radius", DefaultAcceptanceRadius))
                 THEN Done(f, TRUE, "None")
                 ELSE [f EXCEPT !.pc = "poll_sleep"]
     ELSE \E yaw_deg \in YawDegs :
            LET current_heading == yaw_deg % 360
                diff == HeadingDiff(current_heading, h.params.heading)
                f == [h EXCEPT !.polled = TRUE, !.heading = current_heading, !.diff = diff]
            IN
            h' = IF diff <= Tolerance THEN Done(f, TRUE, "None")
                 ELSE [f EXCEPT !.pc = "poll_sleep"]
  /\ UNCHANGED <<execvars, connected, request, auxvars, bvars>>

\* `await asyncio.sleep(check_interval); elapsed += check_interval`, then the
\* loop test, and the timeout result when it fails.
PollSleepDone ==
  /\ h.pc = "poll_sleep"
  /\ LET f == [h EXCEPT !.elapsed = @ + 1] IN
     h' = IF f.elapsed < MonitorRounds(h.name) THEN [f EXCEPT !.pc = "poll"]
          ELSE Done(f, FALSE, "timeout")
  /\ UNCHANGED <<execvars, connected, request, auxvars, bvars>>

\* A telemetry stream raises while the handler awaits it; the handler's
\* `except Exception` returns the failure.
StreamRaises ==
  /\ h.pc \in {"read_armed", "read_position", "poll"}
  /\ h' = ExceptException(h, "stream_error")
  /\ UNCHANGED <<execvars, connected, request, auxvars, bvars>>

\* A telemetry stream stops delivering (the link is lost, which nothing
\* detects): the `async for` the handler is suspended in never resumes.
StreamStalls ==
  /\ h.pc \in {"read_armed", "read_position", "poll"}
  /\ h' = [h EXCEPT !.pc = "stalled"]
  /\ UNCHANGED <<execvars, connected, request, auxvars, bvars>>

\* The steps the event loop and a delivering autopilot take on their own.
HandlerStep ==
  \/ ArmedDelivered
  \/ PositionDelivered
  \/ ActionSucceeds
  \/ ActionFails
  \/ SleepDone
  \/ PollDelivered
  \/ PollSleepDone

HandlerNext ==
  \/ HandlerStarts
  \/ ArmedDelivered
  \/ PositionDelivered
  \/ ActionSucceeds
  \/ ActionFails
  \/ SleepDone
  \/ PollDelivered
  \/ PollSleepDone
  \/ StreamRaises
  \/ StreamStalls
  \/ BackendConnects
  \/ BackendDisconnects

SpecHandlers == Init /\ [][HandlerNext]_vars

\* The event loop resumes a handler whose sleep is over, whose action has
\* returned or whose stream has delivered.
SpecHandlersFair == Init /\ [][HandlerNext]_vars /\ WF_vars(HandlerStep)

\* ================================================================ backend
\* MAVSDKBackend: connect(), the _collect_position task and disconnect().
MaxConnects == 2
MaxUpdates == 3

\* What the autopilot's position stream delivers: latitude_deg, longitude_deg
\* and absolute_altitude_m (0, 0 before the first GPS fix).
Latitudes == {0, 47, 48}
Longitudes == {0, 8}
AbsoluteAltitudes == {0, 488}

Fix(latitude, longitude, altitude) ==
  [latitude |-> latitude, longitude |-> longitude, altitude |-> altitude, valid |-> TRUE]

\* Variant: the origin follows every position with a fix.
ShouldLatch_Overwrites(is_set, latitude, longitude) == latitude # 0 /\ longitude # 0

\* _collect_position: not self._origin_set and latitude != 0 and longitude != 0
ShouldLatch(is_set, latitude, longitude) == ~is_set /\ latitude # 0 /\ longitude # 0

\* get_px4_origin(): a copy of _px4_origin, or None (NoPosition) when unset.
get_px4_origin == IF px4_origin.valid THEN px4_origin ELSE NoPosition

\* The origin get_telemetry() reports while none is latched (47.3977505,
\* 8.5456072, 488.0), latitude and longitude written in 1e-7 degrees; no
\* sample of the position stream above equals it.
DefaultOrigin ==
  [latitude |-> 473977505, longitude |-> 85456072, altitude |-> 488, valid |-> TRUE]

\* Variant: the origin is reported as it is stored, latched or not.
get_telemetry_NoDefault ==
  [connected |-> connected, position |-> telemetry_position, px4_origin |-> px4_origin]

\* get_telemetry(): the snapshot with `connected` refreshed and px4_origin
\* added, the latched one or the default.
get_telemetry ==
  [connected |-> connected, position |-> telemetry_position,
   px4_origin |-> IF px4_origin.valid THEN px4_origin ELSE DefaultOrigin]

\* connect() dials this address whatever the environment or the constructor
\* argument say.
HardCodedAddress == "udp://127.0.0.1:14560"

\* os.getenv("MAVSDK_CONNECTION_STRING"): unset, or an override.
EnvOverrides == {"None", "udpin://10.0.0.5:14540"}

\* _detect_connection_string with no Docker bridge and no SITL container.
detect_connection_string(env) == IF env # "None" THEN env ELSE "udpin://0.0.0.0:14550"

\* _start_telemetry_collection creates one task per stream: position,
\* attitude, battery, flight mode, GPS info, armed.
StreamsCollected == 6

\* The batches of collector tasks that are running, in the task set or not.
running_batches == collectors + untracked

\* The collector tasks that are running.
telemetry_tasks == running_batches * StreamsCollected

\* connect() is called (one call at a time) and awaits
\* wait_for(drone.connect(system_address=...), timeout=10.0).
ConnectCalled ==
  /\ call.pc \in {"idle", "returned", "raised"}
  /\ running_batches < MaxConnects
  /\ \E env \in EnvOverrides :
       call' = [call EXCEPT !.pc = "dialling", !.env = env, !.ret = "none",
                      !.dialled = <<HardCodedAddress>>]
  /\ UNCHANGED <<execvars, h, request, auxvars, connected, px4_origin, origin_set, telemetry_position,
                 collectors, untracked, dpc, position_updates>>

\* drone.connect returns in time; connect() goes on to the connection_state
\* stream.
DialReturns ==
  /\ call.pc = "dialling"
  /\ call' = [call EXCEPT !.pc = "polling", !.session = TRUE]
  /\ UNCHANGED <<execvars, h, request, auxvars, connected, px4_origin, origin_set, telemetry_position,
                 collectors, untracked, dpc, position_updates>>

\* wait_for raises TimeoutError: connect() logs and returns False.
DialTimesOut ==
  /\ call.pc = "dialling"
  /\ call' = [call EXCEPT !.pc = "returned", !.ret = "false"]
  /\ UNCHANGED <<execvars, h, request, auxvars, connected, px4_origin, origin_set, telemetry_position,
                 collectors, untracked, dpc, position_updates>>

\* drone.connect raises anything else: it leaves connect().
DialRaises ==
  /\ call.pc = "dialling"
  /\ call' = [call EXCEPT !.pc = "raised"]
  /\ UNCHANGED <<execvars, h, request, auxvars, connected, px4_origin, origin_set, telemetry_position,
                 collectors, untracked, dpc, position_updates>>

\* connect() finds the autopilot: connected = True and the collectors start.
Connect ==
  /\ call.pc = "polling"
  /\ connected' = TRUE
  /\ collectors' = collectors + 1
  /\ call' = [call EXCEPT !.pc = "returned", !.ret = "true", !.polled = TRUE]
  /\ UNCHANGED <<execvars, h, request, auxvars, px4_origin, origin_set, telemetry_position,
                 untracked, dpc, position_updates>>

\* The connection_state stream never reports is_connected=true (no autopilot
\* answers): the `async for` of connect() goes on waiting.
AutopilotNeverReports ==
  /\ call.pc = "polling"
  /\ call' = [call EXCEPT !.pc = "waiting"]
  /\ UNCHANGED <<execvars, h, request, auxvars, connected, px4_origin, origin_set, telemetry_position,
                 collectors, untracked, dpc, position_updates>>

\* One pass of the body of _collect_position's `async for`.
CollectPosition ==
  /\ running_batches > 0
  /\ Len(position_updates) < MaxUpdates
  /\ \E latitude \in Latitudes, longitude \in Longitudes, altitude \in AbsoluteAltitudes :
       LET position_data == Fix(latitude, longitude, altitude) IN
       /\ IF ShouldLatch(origin_set, latitude, longitude)
          THEN px4_origin' = position_data /\ origin_set' = TRUE
          ELSE UNCHANGED <<px4_origin, origin_set>>
       /\ telemetry_position' = position_data
       /\ position_updates' = Append(position_updates, position_data)
  /\ UNCHANGED <<execvars, h, request, auxvars, connected, collectors, untracked, dpc, call>>

\* The `# Reset state` block of disconnect().
Reset ==
  /\ connected' = FALSE
  /\ telemetry_position' = NoPosition
  /\ px4_origin' = NoPosition
  /\ origin_set' = FALSE
  /\ position_updates' = <<>>
  /\ dpc' = "idle"

\* disconnect() up to its await: the running tasks are cancelled; with no task
\* to join it runs through to the end.
Disconnect ==
  /\ dpc = "idle"
  /\ IF collectors = 0
     THEN Reset /\ UNCHANGED collectors
     ELSE /\ collectors' = 0
          /\ dpc' = "gathering"
          /\ UNCHANGED <<connected, telemetry_position, px4_origin, origin_set,
                         position_updates>>
  /\ UNCHANGED <<execvars, h, request, auxvars, untracked, call>>

\* asyncio.gather returns; `self._telemetry_tasks.clear()` and the reset
\* follow.  Tasks a connect() started meanwhile are dropped from the set and
\* keep running: no later disconnect() finds them.
DisconnectJoined ==
  /\ dpc = "gathering"
  /\ Reset
  /\ untracked' = untracked + collectors
  /\ collectors' = 0
  /\ UNCHANGED <<execvars, h, request, auxvars, call>>

\* MAVSDKBackend.__init__: connected = False.
InitBackend == Init /\ connected = FALSE

BackendNext ==
  \/ ConnectCalled
  \/ DialReturns
  \/ DialTimesOut
  \/ DialRaises
  \/ Connect
  \/ AutopilotNeverReports
  \/ CollectPosition
  \/ Disconnect
  \/ DisconnectJoined

SpecBackend == InitBackend /\ [][BackendNext]_vars

\* The steps of a connect() call that the event loop and the MAVSDK server
\* take on their own.
ConnectStep ==
  \/ DialReturns
  \/ DialTimesOut
  \/ DialRaises
  \/ Connect

SpecBackendFair == InitBackend /\ [][BackendNext]_vars /\ WF_vars(ConnectStep)

\* ==================================================================== API
\* POST /commands, agent/api.py execute_commands.  The executor and the
\* backend's connect() appear by their outcomes.
AGENT_ID == 1
MaxResults == 2

\* request.get("target_drone"): absent (0 here, falsy like None), this
\* agent's id, or another one.
TargetDrones == {0, AGENT_ID, 2}

\* The globals after startup_event: neither object, the backend alone (the
\* executor's construction failed), or both.
Globals ==
  {[backend |-> FALSE, executor |-> FALSE],
   [backend |-> TRUE, executor |-> FALSE],
   [backend |-> TRUE, executor |-> TRUE]}

\* The success values of the results execute_sequence returns.
ResultLists == UNION {[1..k -> BOOLEAN] : k \in 0..MaxResults}

\* Variant: success when some command succeeded.
All_Any(rs) == \E k \in DOMAIN rs : rs[k]

\* all(r.success for r in results)
All(rs) == \A k \in DOMAIN rs : rs[k]

RECURSIVE Count(_)
\* sum(1 for r in results if r.success)
Count(rs) ==
  IF rs = <<>> THEN 0
  ELSE (IF rs[1] THEN 1 ELSE 0) + Count(Tail(rs))

\* The endpoint answers.
Respond(f, status) == [f EXCEPT !.pc = "responded", !.status = status]

\* `except Exception as e: raise HTTPException(status_code=503, ...)` around
\* the reconnection; HTTPException is an Exception, so the clause also catches
\* the 503 raised inside its own try.
InnerExcept(e) == 503

\* `except Exception as e: raise HTTPException(status_code=500, ...)` around
\* the whole body: it catches the HTTPExceptions the guards raise too.
OuterExcept(e) == 500

\* `raise HTTPException(status_code=...)` by a guard, inside the outer try.
RaiseHTTPException(f, status) ==
  Respond([f EXCEPT !.raised = "HTTPException"], OuterExcept(status))

\* `results = await executor.execute_sequence(commands)` is entered.
Dispatched(f) == [f EXCEPT !.pc = "executing", !.dispatched = TRUE]

\* execute_commands from its entry to its first await.
Guards(f) ==
  IF f.malformed THEN Respond([f EXCEPT !.raised = "KeyError"], OuterExcept(0))
  ELSE IF f.target_drone # 0 /\ f.target_drone # AGENT_ID THEN RaiseHTTPException(f, 400)
  ELSE IF ~f.executor THEN RaiseHTTPException(f, 503)
  ELSE IF ~f.backend \/ ~f.conn
       THEN IF f.backend
            THEN [f EXCEPT !.pc = "connecting", !.connect_calls = @ + 1]
            ELSE RaiseHTTPException(f, 503)
       ELSE Dispatched(f)

\* A request arrives: the body is parsed and the guards run.
ExecuteCommands ==
  /\ request.pc \in {"idle", "responded"}
  /\ \E malformed \in BOOLEAN, target_drone \in TargetDrones, g \in Globals :
       request' = Guards([RequestIdle EXCEPT !.malformed = malformed,
                                             !.target_drone = target_drone,
                                             !.executor = g.executor,
                                             !.backend = g.backend,
                                             !.conn = connected])
  /\ UNCHANGED <<execvars, h, auxvars, connected, bvars>>

\* `connection_success = await backend.connect()` resolves: True, False, or
\* an exception.
ReconnectResolves ==
  /\ request.pc = "connecting"
  /\ \E outcome \in {"true", "false", "raised"} :
       LET f == [request EXCEPT !.connect_result = outcome] IN
       /\ request' = IF outcome = "true" THEN Dispatched(f)
                     ELSE Respond([f EXCEPT !.raised = "HTTPException"],
                                  OuterExcept(InnerExcept(outcome)))
       /\ connected' = IF outcome = "true" THEN TRUE ELSE connected
  /\ UNCHANGED <<execvars, h, auxvars, bvars>>

\* execute_sequence returns its results; the endpoint builds the response.
ExecuteSequenceReturns ==
  /\ request.pc = "executing"
  /\ \E rs \in ResultLists :
       request' = Respond([request EXCEPT
                             !.results = rs,
                             !.body = [success |-> All(rs),
                                       total_commands |-> Len(rs),
                                       successful_commands |-> Count(rs)]],
                          200)
  /\ UNCHANGED <<execvars, h, auxvars, connected, bvars>>

\* execute_sequence raises (a sequence is already running, or the executor's
\* AttributeError).
ExecuteSequenceRaises ==
  /\ request.pc = "executing"
  /\ request' = Respond([request EXCEPT !.raised = "Exception"], OuterExcept(0))
  /\ UNCHANGED <<execvars, h, auxvars, connected, bvars>>

ApiNext ==
  \/ ExecuteCommands
  \/ ReconnectResolves
  \/ ExecuteSequenceReturns
  \/ ExecuteSequenceRaises
  \/ BackendConnects
  \/ BackendDisconnects

SpecApi == Init /\ [][ApiNext]_vars

\* ============================================================== telemetry
\* The six collector tasks of MAVSDKBackend and the TelemetryState they fill.
MaxDecodeErrors == 1

\* The messages a stream delivers, by number.
Messages == {1, 2}

\* The fields each collector reads from a message into its slot.
Fields(stream) ==
  CASE stream = "position" -> {"latitude", "longitude", "altitude", "relative_altitude"}
    [] stream = "attitude" -> {"roll", "pitch", "yaw"}
    [] stream = "battery" -> {"voltage", "remaining_percent"}
    [] stream = "flight_mode" -> {"value"}
    [] stream = "gps_info" -> {"num_satellites", "fix_type"}
    [] stream = "armed" -> {"value"}

\* The value a collector builds from message m: every field from m.
Whole(stream, m) == [f \in Fields(stream) |-> m]

\* The position sample message m carries.
PositionOf(m) == Fix(46 + m, 8, 488)

\* Variant: the fields decoded before the failure are written to the slot.
Store_FieldByField(old, stream, m, failing) ==
  IF failing = "none" THEN Whole(stream, m)
  ELSE [f \in Fields(stream) \ {failing} |-> m]

\* The body of a collector's `async for`: the value is built inside the try
\* and assigned to the slot in one statement; when building it raises, the
\* except clause logs and the slot keeps its value.
Store(old, stream, m, failing) ==
  IF failing = "none" THEN Whole(stream, m) ELSE old

\* One pass of the loop body of the collector of `stream`, with a message
\* whose field `failing` cannot be converted ("none": all can).  The position
\* collector also latches the origin.
Collect(stream) ==
  /\ running_batches > 0
  /\ \E m \in Messages, failing \in Fields(stream) \cup {"none"} :
       /\ failing # "none" => processed.errors < MaxDecodeErrors
       /\ telemetry_state' =
            [telemetry_state EXCEPT ![stream] = Store(@, stream, m, failing)]
       /\ processed' = [stream |-> stream,
                        errors |-> IF failing = "none" THEN processed.errors
                                   ELSE processed.errors + 1]
       /\ IF stream = "position" /\ failing = "none"
          THEN /\ telemetry_position' = PositionOf(m)
               /\ IF ShouldLatch(origin_set, PositionOf(m).latitude, PositionOf(m).longitude)
                  THEN px4_origin' = PositionOf(m) /\ origin_set' = TRUE
                  ELSE UNCHANGED <<px4_origin, origin_set>>
          ELSE UNCHANGED <<telemetry_position, px4_origin, origin_set>>
  /\ UNCHANGED <<execvars, connected, h, request, registry, goto,
                 collectors, untracked, dpc, position_updates, call>>

\* The backend after a connect() that returned True: the collectors run and
\* nothing has been collected.
BackendCollecting ==
  /\ px4_origin = NoPosition
  /\ origin_set = FALSE
  /\ telemetry_position = NoPosition
  /\ collectors = 1
  /\ untracked = 0
  /\ dpc = "idle"
  /\ position_updates = <<>>
  /\ call = [ConnectIdle EXCEPT !.pc = "returned", !.ret = "true", !.session = TRUE,
                                !.polled = TRUE, !.dialled = <<HardCodedAddress>>]

InitTelemetry ==
  /\ ExecutorInit
  /\ connected = TRUE
  /\ h = HandlerIdle
  /\ BackendCollecting
  /\ request = RequestIdle
  /\ AuxInit

TelemetryNext == \E stream \in Streams : Collect(stream)

SpecTelemetry == InitTelemetry /\ [][TelemetryNext]_vars

\* =================================================================== goto
\* GotoCommand from `command_class(cmd.name, cmd.params)` in the executor to
\* the goto_location action of execute(); the arrival monitor that follows is
\* part of the handler frame h above.  pymap3d is installed.
GpsKeys == {"latitude", "longitude", "altitude"}
NedKeys == {"north", "east", "down"}

\* A value each range check accepts and one it rejects.
InRange(key) ==
  CASE key = "latitude" -> 47 [] key = "longitude" -> 8 [] key = "altitude" -> 500
    [] key = "north" -> 50 [] key = "east" -> 30 [] key = "down" -> -15
OutOfRange(key) ==
  CASE key = "latitude" -> 91 [] key = "longitude" -> 181 [] key = "altitude" -> 10001
    [] key = "north" -> 10001 [] key = "east" -> -10001 [] key = "down" -> 101

\* Every parameter map over the six coordinate keys: each key absent, in range
\* or out of range.
GotoMaps ==
  {[key \in x[1] |-> IF key \in x[2] THEN OutOfRange(key) ELSE InRange(key)] :
     x \in {y \in (SUBSET (GpsKeys \cup NedKeys)) \X (SUBSET (GpsKeys \cup NedKeys)) :
              y[2] \subseteq y[1]}}

\* all(key in params for key in [...])
has_gps(params) == GpsKeys \subseteq DOMAIN params
has_ned(params) == NedKeys \subseteq DOMAIN params

\* _validate_gps_params raises ValueError.
validate_gps_params(params) ==
  \/ ~(-90 <= params.latitude /\ params.latitude <= 90)
  \/ ~(-180 <= params.longitude /\ params.longitude <= 180)
  \/ params.altitude < -500
  \/ params.altitude > 10000

\* _validate_ned_params raises ValueError.
validate_ned_params(params) ==
  \/ Abs(params.north) > 10000
  \/ Abs(params.east) > 10000
  \/ params.down < -1000
  \/ params.down > 100

\* GotoCommand.validate_params: "ValueError" when it raises, else the
\* coordinate mode whose values it range-checked.
GotoCommand_validate_params(params) ==
  IF ~has_gps(params) /\ ~has_ned(params) THEN "ValueError"
  ELSE IF has_gps(params) /\ has_ned(params) THEN "ValueError"
  ELSE IF has_gps(params)
       THEN IF validate_gps_params(params) THEN "ValueError" ELSE "GPS"
       ELSE IF validate_ned_params(params) THEN "ValueError" ELSE "NED"

\* What get_gps_global_origin returns when the autopilot answers.
LiveOrigins == {Fix(47, 8, 488), Fix(48, 8, 490)}

\* The origin _get_px4_origin_dynamic returns when the fetch raises
\* (47.3977508, 8.5456074, 488.0), latitude and longitude in 1e-7 degrees.
SitlDefaultOrigin ==
  [latitude |-> 473977508, longitude |-> 85456074, altitude |-> 488, valid |-> TRUE]

\* pm.ned2geodetic(north, east, down, lat0, lon0, h0), left unevaluated.
ned2geodetic(params, origin) ==
  <<"ned2geodetic", params.north, params.east, params.down,
    origin.latitude, origin.longitude, origin.altitude>>

\* The origin is known: convert and call goto_location.
ConvertNedToGps(f, origin, fetched) ==
  Dispatch([f EXCEPT !.origin = origin, !.fetched = fetched,
                     !.latched = get_px4_origin,
                     !.target = ned2geodetic(f.params, origin)],
           "goto_location")

\* execute(), lines 199-223, after _check_flight_state has returned: the
\* coordinate mode is chosen by `"latitude" in self.params`; a key the chosen
\* branch reads and the map lacks raises KeyError.
SelectTarget(f) ==
  IF "latitude" \in DOMAIN f.params
  THEN LET g == [f EXCEPT !.branch = "GPS"] IN
       IF ~has_gps(f.params) THEN ExceptException(g, "KeyError")
       ELSE Dispatch([g EXCEPT !.target = <<"gps", f.params.latitude,
                                            f.params.longitude, f.params.altitude>>],
                     "goto_location")
  ELSE LET g == [f EXCEPT !.branch = "NED"] IN
       IF ~has_ned(f.params) THEN ExceptException(g, "KeyError")
       ELSE [g EXCEPT !.pc = "origin"]

\* executor.py:115 with a goto: BaseCommand.__init__ runs validate_params; a
\* ValueError reaches the executor's `except Exception`, which appends a
\* result with error=str(e).
GotoConstructed ==
  /\ goto.pc \in {"idle", "rejected", "done", "action"}
  /\ \E params \in GotoMaps :
       LET v == GotoCommand_validate_params(params) IN
       goto' = IF v = "ValueError"
               THEN [GotoIdle EXCEPT !.pc = "rejected", !.params = params,
                                     !.exc = "ValueError", !.reported = "ValueError"]
               ELSE [GotoIdle EXCEPT !.pc = "constructed", !.params = params,
                                     !.validated = v]
  /\ UNCHANGED <<execvars, connected, h, request, registry, telemetry_state, processed, bvars>>

\* execute() up to its first await.
GotoEntered ==
  /\ goto.pc = "constructed"
  /\ goto' = IF ~connected
             THEN Done([goto EXCEPT !.conn = FALSE], FALSE, "backend_disconnected")
             ELSE [goto EXCEPT !.conn = TRUE, !.pc = "read_armed"]
  /\ UNCHANGED <<execvars, connected, h, request, registry, telemetry_state, processed, bvars>>

\* _check_flight_state: the armed stream delivers.
GotoArmedDelivered ==
  /\ goto.pc = "read_armed"
  /\ \E is_armed \in BOOLEAN :
       goto' = IF ~is_armed THEN ExceptException(goto, "requires_armed")
               ELSE [goto EXCEPT !.pc = "read_position"]
  /\ UNCHANGED <<execvars, connected, h, request, registry, telemetry_state, processed, bvars>>

\* _check_flight_state: the position stream delivers; execute() goes on to
\* the target coordinates.
GotoPositionDelivered ==
  /\ goto.pc = "read_position"
  /\ \E alt \in Altitudes :
       goto' = IF NotAirborneRaises(alt) THEN ExceptException(goto, "requires_airborne")
               ELSE SelectTarget(goto)
  /\ UNCHANGED <<execvars, connected, h, request, registry, telemetry_state, processed, bvars>>

\* _get_px4_origin_dynamic: get_gps_global_origin returns the live origin.
OriginDelivered ==
  /\ goto.pc = "origin"
  /\ \E origin \in LiveOrigins : goto' = ConvertNedToGps(goto, origin, "live")
  /\ UNCHANGED <<execvars, connected, h, request, registry, telemetry_state, processed, bvars>>

\* _get_px4_origin_dynamic: get_gps_global_origin raises; `except Exception`
\* returns the SITL default.
OriginRaises ==
  /\ goto.pc = "origin"
  /\ goto' = ConvertNedToGps(goto, SitlDefaultOrigin, "default")
  /\ UNCHANGED <<execvars, connected, h, request, registry, telemetry_state, processed, bvars>>

\* The backend after a connect() whose position collector has processed one
\* sample with a fix: the origin is latched.
BackendLatched ==
  \E origin \in {Fix(48, 8, 488)} :
    /\ px4_origin = origin
    /\ origin_set = TRUE
    /\ telemetry_position = origin
    /\ collectors = 1
    /\ untracked = 0
    /\ dpc = "idle"
    /\ position_updates = <<origin>>
    /\ call = [ConnectIdle EXCEPT !.pc = "returned", !.ret = "true", !.session = TRUE,
                                  !.polled = TRUE, !.dialled = <<HardCodedAddress>>]

\* A goto is constructed for a backend with or without a latched origin.
InitGoto ==
  /\ ExecutorInit
  /\ connected \in BOOLEAN
  /\ h = HandlerIdle
  /\ BackendInit \/ BackendLatched
  /\ request = RequestIdle
  /\ AuxInit

GotoNext ==
  \/ GotoConstructed
  \/ GotoEntered
  \/ GotoArmedDelivered
  \/ GotoPositionDelivered
  \/ OriginDelivered
  \/ OriginRaises
  \/ BackendConnects
  \/ BackendDisconnects

SpecGoto == InitGoto /\ [][GotoNext]_vars

\* =============================================================== registry
\* agent/command_registry.py, a registry of its own: what discovery finds in
\* the two directories is the input.
RegistryNames == {"takeoff", "goto", "frobnicate"}

\* validate_params of a registry `reg`: the list of error strings.
CommandRegistry_validate_params(reg, name, params) ==
  IF name \notin reg.validators THEN <<>>
  ELSE IF params = "schema_invalid" THEN <<"root: rejected by the schema">>
  ELSE <<>>

\* self.commands.get(command_name)
CommandRegistry_get_command_class(reg, name) ==
  IF name \in reg.commands THEN name ELSE "None"

\* One entry of the catalog.
CommandInfo(reg, name) ==
  [name |-> name,
   has_implementation |-> name \in reg.commands,
   has_schema |-> name \in reg.schemas,
   has_validation |-> name \in reg.validators]

\* Variant: the catalog lists the names with a handler only.
get_command_info_HandlersOnly(reg) ==
  {CommandInfo(reg, name) : name \in reg.commands}

\* get_command_info: one entry per name in commands or in schemas.
get_command_info(reg) ==
  {CommandInfo(reg, name) : name \in reg.commands \cup reg.schemas}

\* The registry with the record of the previous call dropped.
Called(reg, method) ==
  [RegistryIdle EXCEPT !.commands = reg.commands, !.schemas = reg.schemas,
                       !.validators = reg.validators, !.asked = method]

\* discover_and_register: `loaded` are the handler files whose class is
\* found, `described` the schema files that parse and carry a name,
\* `validated` those among them with a validation_schema.
DiscoverAndRegister ==
  /\ \E loaded \in SUBSET RegistryNames, described \in SUBSET RegistryNames :
       \E validated \in SUBSET described :
         registry' = [Called(registry, "discover_and_register") EXCEPT
                        !.commands = @ \cup loaded,
                        !.schemas = @ \cup described,
                        !.validators = @ \cup validated]
  /\ UNCHANGED <<execvars, connected, h, request, goto, telemetry_state, processed, bvars>>

ValidateParams ==
  /\ \E name \in RegistryNames, params \in {"valid", "schema_invalid"} :
       registry' = [Called(registry, "validate_params") EXCEPT
                      !.name = name, !.params = params,
                      !.errors = CommandRegistry_validate_params(registry, name, params)]
  /\ UNCHANGED <<execvars, connected, h, request, goto, telemetry_state, processed, bvars>>

GetCommandClass ==
  /\ \E name \in RegistryNames :
       registry' = [Called(registry, "get_command_class") EXCEPT
                      !.name = name,
                      !.class = CommandRegistry_get_command_class(registry, name)]
  /\ UNCHANGED <<execvars, connected, h, request, goto, telemetry_state, processed, bvars>>

GetCommandInfo ==
  /\ registry' = [Called(registry, "get_command_info") EXCEPT
                     !.info = get_command_info(registry)]
  /\ UNCHANGED <<execvars, connected, h, request, goto, telemetry_state, processed, bvars>>

RegistryNext ==
  \/ DiscoverAndRegister
  \/ ValidateParams
  \/ GetCommandClass
  \/ GetCommandInfo

SpecRegistry == Init /\ [][RegistryNext]_vars

\* ================================================================ claims
HasEv(t, e, i) == \E k \in 1..Len(log[t]) : log[t][k] = Ev(e, i)

\* The results appended for command i of caller t.
ResultsFor(t, i) == {k \in 1..Len(results[t]) : results[t][k].cmd = i}

\* Command i of caller t failed: unknown name, validation errors, an exception
\* from the constructor, or a handler result with success=false.
Unknown(t, i) == HasEv(t, "lookup", i) /\ get_command_class(cmds[t][i].name) = "None"
Invalid(t, i) ==
  HasEv(t, "validate", i) /\ validate_params(cmds[t][i].name, cmds[t][i].params)
Threw(t, i) ==
  HasEv(t, "construct", i) /\ ConstructorRaises(cmds[t][i].name, cmds[t][i].params)
HandlerFailed(t, i) ==
  \E k \in ResultsFor(t, i) :
    /\ ~results[t][k].success
    /\ results[t][k].error \in {"backend_disconnected", "action_failed"}
Failed(t, i) == Unknown(t, i) \/ Invalid(t, i) \/ Threw(t, i) \/ HandlerFailed(t, i)

Attempted(t) == {i \in 1..Len(cmds[t]) : HasEv(t, "lookup", i)}

\* C1: in every reachable state at most one execute_sequence call is in
\* flight on the executor, whatever the interleaving of execute_sequence and
\* abort_sequence calls.
C1_AtMostOneInFlight == Cardinality({t \in Callers : InFlight(t)}) <= 1

\* C2: when a CRITICAL command fails (unknown command, validation error,
\* handler result with success=false, or exception) its failure result is the
\* last result appended, emergency RTL has been invoked, and no later command
\* of the sequence is looked up, validated or executed.
C2_CriticalFailureStops ==
  \A t \in Callers : \A i \in Attempted(t) :
    (cmds[t][i].mode = "critical" /\ Failed(t, i)) =>
      /\ Len(results[t]) > 0
      /\ results[t][Len(results[t])].cmd = i
      /\ ~results[t][Len(results[t])].success
      /\ Cardinality(ResultsFor(t, i)) = 1
      /\ HasEv(t, "emergency_rtl", i)
      /\ \A k \in 1..Len(log[t]) : log[t][k].cmd <= i
      /\ pc[t] \in {"rtl_action", "rtl_sleep", "returned"}

C2_Witness ==
  \E t \in Callers :
    /\ pc[t] = "returned"
    /\ Len(cmds[t]) = 2
    /\ cmds[t][1].mode = "critical"
    /\ Threw(t, 1)
    /\ HasEv(t, "return_to_launch", 1)

\* C3: once admitted, execute_sequence returns the results collected so far;
\* no exception escapes the call.
C3_NoExceptionEscapes == \A t \in Callers : pc[t] # "raised"

\* C4: when the handler returns success=false or construction/execute throws
\* and the mode is CONTINUE or SKIP, exactly one failure result is appended for
\* the command and the next command of the sequence is executed.
C4_NonCriticalFailureContinues ==
  \A t \in Callers : \A i \in Attempted(t) :
    (cmds[t][i].mode # "critical" /\ (Threw(t, i) \/ HandlerFailed(t, i))) =>
      /\ Cardinality(ResultsFor(t, i)) = 1
      /\ pc[t] # "raised"
      /\ i < Len(cmds[t]) => HasEv(t, "lookup", i + 1)

\* C5: a command without a registered handler yields one unknown_command
\* result without validation or handler execution, and with mode CONTINUE or
\* SKIP the sequence proceeds to the next command.
C5_UnknownCommandContinues ==
  \A t \in Callers : \A i \in Attempted(t) :
    Unknown(t, i) =>
      /\ \E k \in ResultsFor(t, i) : results[t][k].error = "unknown_command"
      /\ Cardinality(ResultsFor(t, i)) = 1
      /\ ~HasEv(t, "validate", i) /\ ~HasEv(t, "construct", i) /\ ~HasEv(t, "execute", i)
      /\ cmds[t][i].mode # "critical" =>
           /\ pc[t] # "raised"
           /\ i < Len(cmds[t]) => HasEv(t, "lookup", i + 1)

\* C6: when registry validation returns errors for a command, exactly one
\* invalid_parameters result is appended for it, its handler is never
\* constructed or executed, and the failure policy applies: CRITICAL stops the
\* sequence with emergency RTL, any other mode goes on to the next command.
C6_InvalidParameters ==
  \A t \in Callers : \A i \in Attempted(t) :
    Invalid(t, i) =>
      /\ Cardinality(ResultsFor(t, i)) = 1
      /\ \A k \in ResultsFor(t, i) :
           ~results[t][k].success /\ results[t][k].error = "invalid_parameters"
      /\ ~HasEv(t, "construct", i) /\ ~HasEv(t, "execute", i)
      /\ IF cmds[t][i].mode = "critical"
         THEN /\ HasEv(t, "emergency_rtl", i)
              /\ \A k \in 1..Len(log[t]) : log[t][k].cmd <= i
         ELSE /\ ~HasEv(t, "emergency_rtl", i)
              /\ i < Len(cmds[t]) => HasEv(t, "lookup", i + 1)

C6_Witness ==
  \E t \in Callers :
    /\ Len(cmds[t]) = 2
    /\ Invalid(t, 1)
    /\ cmds[t][1].mode = "skip"
    /\ HasEv(t, "execute", 2)
    /\ pc[t] = "returned"
    /\ Len(results[t]) = 2

\* C7: for every sequence S and every result list returned by
\* execute_sequence(S): len(result) <= len(S), and a failed result at a
\* position whose command is CRITICAL is the last result.
C7_CriticalFailureIsLast ==
  \A t \in Callers :
    pc[t] = "returned" =>
      /\ Len(results[t]) <= Len(cmds[t])
      /\ \A i \in 1..Len(results[t]) :
           (~results[t][i].success /\ cmds[t][i].mode = "critical") =>
             i = Len(results[t])

C7_Witness ==
  \E t \in Callers :
    /\ pc[t] = "returned"
    /\ Len(cmds[t]) = 2
    /\ Len(results[t]) = 1
    /\ ~results[t][1].success
    /\ cmds[t][1].mode = "critical"
    /\ Invalid(t, 1)

\* C8: for every sequence S in which no CRITICAL command fails,
\* execute_sequence returns a list with len(result) = len(S) whose i-th entry
\* is the result of S[i].
C8_FullResultsWithoutCriticalFailure ==
  \A t \in Callers :
    (/\ Exited(t)
     /\ \A i \in Attempted(t) : ~(cmds[t][i].mode = "critical" /\ Failed(t, i))) =>
      /\ pc[t] = "returned"
      /\ Len(results[t]) = Len(cmds[t])
      /\ \A i \in 1..Len(results[t]) : results[t][i].cmd = i

\* C9: a call to execute_sequence made while executing=true raises before
\* doing anything else: nothing is dispatched for it, and executing,
\* current_sequence and every call's results are left unchanged.
C9_BusyCallRejected ==
  [][\A t \in Callers :
       (pc[t] = "idle" /\ pc'[t] # "idle" /\ executing) =>
         /\ pc'[t] = "rejected"
         /\ log'[t] = <<>>
         /\ UNCHANGED <<executing, current_sequence, connected, idx, results, log, apc>>
         /\ \A u \in Callers \ {t} : pc'[u] = pc[u] /\ cmds'[u] = cmds[u]]_vars

C9_Witness ==
  \E t, u \in Callers :
    /\ pc[t] = "rejected"
    /\ log[t] = <<>>
    /\ InFlight(u)
    /\ executing

\* C10: executing is true exactly while an execute_sequence call is in
\* flight, and once the call has exited executing is false and
\* current_sequence is empty.
C10_ExecutingIffInFlight ==
  /\ executing <=> (\E t \in Callers : InFlight(t))
  /\ ~executing => current_sequence = <<>>

\* The events of caller t's log with the given name, by position.
EvAt(t, e) == {k \in 1..Len(log[t]) : log[t][k].ev = e}

\* C11: within one execute_sequence call the handler of a later command is
\* neither constructed nor entered before the handler of every earlier
\* executed command has resolved, so at most one handler of the call is
\* running, and it is the one the call is suspended in.
C11_HandlersStrictlySequential ==
  \A t \in Callers :
    LET entered == {log[t][k].cmd : k \in EvAt(t, "execute")}
        resolved == {log[t][k].cmd : k \in EvAt(t, "resolved")}
        running == entered \ resolved
    IN
    /\ Cardinality(running) <= 1
    /\ running # {} => (pc[t] = "handler" /\ running = {idx[t]})
    /\ \A k \in EvAt(t, "construct") : \A m \in EvAt(t, "execute") :
         (m < k /\ log[t][m].cmd < log[t][k].cmd) =>
           \E n \in (m + 1)..(k - 1) : log[t][n] = Ev("resolved", log[t][m].cmd)

C11_Witness ==
  \E t \in Callers :
    /\ pc[t] = "handler"
    /\ idx[t] = 2
    /\ HasEv(t, "resolved", 1)
    /\ HasEv(t, "execute", 2)
    /\ ~HasEv(t, "resolved", 2)

\* C12: emergency RTL is never invoked while a command handler or another
\* autopilot action is still pending, also when abort_sequence triggers it
\* during a running sequence.
C12_RtlNotInvokedWhilePending ==
  [][(apc = "idle" /\ apc' = "rtl_action") =>
       \A t \in Callers : pc[t] \notin {"handler", "rtl_action"}]_vars

\* C13: emergency RTL is best-effort: whether the RTL handler returns a
\* failure (backend_disconnected, autopilot refusal) or succeeds, its outcome
\* is not added to the results, the call returns the results collected so far
\* and no exception escapes.
C13_RtlBestEffort ==
  /\ [](\A t \in Callers : \A i \in Attempted(t) :
          HasEv(t, "emergency_rtl", i) =>
            /\ pc[t] \in {"rtl_action", "rtl_sleep", "returned"}
            /\ Cardinality(ResultsFor(t, i)) = 1
            /\ results[t][Len(results[t])].cmd = i
            /\ \A k \in 1..Len(results[t]) : results[t][k].error # "backend_disconnected"
                 \/ HasEv(t, "execute", results[t][k].cmd))
  /\ [][\A t \in Callers :
          (pc[t] \in {"rtl_action", "rtl_sleep"} /\ pc'[t] # pc[t]) =>
            /\ pc'[t] \in {"rtl_sleep", "returned"}
            /\ results'[t] = results[t]]_vars

C13_Witness ==
  \E t \in Callers :
    /\ pc[t] = "returned"
    /\ Len(results[t]) = 1
    /\ HasEv(t, "emergency_rtl", 1)
    /\ ~HasEv(t, "return_to_launch", 1)
    /\ results[t][1].error = "unknown_command"

\* ------------------------------------------------------- handler claims
\* The handler ran (or runs) and saw backend.connected false on entry.
EnteredDisconnected == h.name \in Handlers /\ ~h.conn

\* The handler returned the refusal and had touched nothing.
Refused ==
  /\ h.pc = "done"
  /\ h.result = [success |-> FALSE, error |-> "backend_disconnected"]
  /\ h.reads = {}
  /\ h.dispatched = <<>>

\* C14 as stated: every handler, wait included, entered with
\* backend.connected false returns success=false, error=backend_disconnected
\* and has read no telemetry stream and dispatched no autopilot action.
C14_EveryHandlerChecksConnected == EnteredDisconnected => Refused

\* C14 amended: takeoff, land, rtl, goto and yaw entered with
\* backend.connected false return the backend_disconnected failure with no
\* stream read and no action dispatched; wait never consults the backend: it
\* reads nothing, dispatches nothing and returns success either way.
C14_HandlersExceptWaitCheckConnected ==
  /\ (EnteredDisconnected /\ h.name # "wait") => Refused
  /\ h.name = "wait" =>
       /\ h.reads = {}
       /\ h.dispatched = <<>>
       /\ h.pc \in {"sleep", "done"}
       /\ (h.pc = "done" => h.result = [success |-> TRUE, error |-> "None"])

C14_Witness == h.name = "goto" /\ ~h.conn /\ h.pc = "done"

\* The position sample the handler's precondition was taken from has arrived.
AltitudeObserved == h.alt # -1

NoActionSuccess ==
  /\ h.pc = "done"
  /\ h.result.success
  /\ h.dispatched = <<>>

\* C15: takeoff that observes the drone airborne (relative altitude >= 0.5 m)
\* and land that observes it grounded (relative altitude < 0.5 m) return
\* success and have dispatched no autopilot action.
C15_NoOpWhenAlreadyThere ==
  /\ (h.name = "takeoff" /\ AltitudeObserved /\ h.alt >= GroundThreshold) => NoActionSuccess
  /\ (h.name = "land" /\ AltitudeObserved /\ h.alt < GroundThreshold) => NoActionSuccess

C15_Witness == h.name = "takeoff" /\ h.alt = 50 /\ h.pc = "done"

\* C16: goto and yaw have dispatched an action only after observing the drone
\* armed and at relative altitude >= 0.5 m; when they observe it disarmed or
\* below 0.5 m they return a failure and have dispatched nothing.
C16_FlightStateBeforeDispatch ==
  h.name \in {"goto", "yaw"} =>
    /\ h.dispatched # <<>> => (h.armed = "true" /\ AltitudeObserved /\ h.alt >= GroundThreshold)
    /\ (h.armed = "false" \/ (AltitudeObserved /\ h.alt < GroundThreshold)) =>
         (h.pc = "done" /\ ~h.result.success /\ h.dispatched = <<>>)

C16_Witness == h.name = "yaw" /\ h.alt = GroundThreshold /\ Len(h.dispatched) = 1

\* C17: a goto that returned success polled a position whose distance to the
\* target, horizontal and vertical combined, is within acceptance_radius
\* (2 m when the parameter is absent); in particular a goto all of whose
\* polls were outside the radius has not returned success.
C17_SuccessWithinRadius ==
  (h.name = "goto" /\ h.pc = "done" /\ h.result.success) =>
    /\ h.polled
    /\ LET radius == IF "acceptance_radius" \in DOMAIN h.params
                     THEN h.params.acceptance_radius ELSE 2
       IN h.last.n * h.last.n + h.last.v * h.last.v <= radius * radius

C17_Witness ==
  /\ h.name = "goto" /\ h.pc = "done" /\ h.result.success
  /\ "acceptance_radius" \notin DOMAIN h.params
  /\ h.last = [n |-> 2, v |-> 0]

\* The shortest angular distance between two headings in [0, 360).
ShortestAngular(a, b) ==
  IF Abs(a - b) <= 360 - Abs(a - b) THEN Abs(a - b) ELSE 360 - Abs(a - b)

\* C18: every heading difference yaw computes is the shortest angular
\* distance between yaw_deg mod 360 and the target and lies in [0, 180], and a
\* yaw that returned success last observed a heading within 2 degrees of the
\* target by that distance.
C18_SuccessWithinTolerance ==
  (h.name = "yaw" /\ h.polled) =>
    /\ h.heading \in 0..359
    /\ h.diff \in 0..180
    /\ h.diff = ShortestAngular(h.heading, h.params.heading)
    /\ (h.pc = "done" /\ h.result.success) =>
         ShortestAngular(h.heading, h.params.heading) <= 2

C18_Witness ==
  /\ h.name = "yaw" /\ h.pc = "done" /\ h.result.success
  /\ h.params.heading = 359 /\ h.heading = 1

\* C19 as stated: once goto or yaw monitors (its action dispatched and
\* returned), the execution eventually resolves, whatever the stream does.
C19_MonitorEventuallyResolves ==
  (h.name \in {"goto", "yaw"} /\ h.pc = "poll") ~> (h.pc = "done")

\* ------------------------------------------------------- backend claims
\* The position updates since the last reset that carry a fix.
WithFix == { i \in 1..Len(position_updates) :
               position_updates[i].latitude # 0 /\ position_updates[i].longitude # 0 }

\* C20: get_px4_origin() returns None while no position update with lat # 0
\* and lon # 0 has been processed since the last reset, and from then on the
\* first such update, whatever updates follow, until disconnect() resets.
C20_OriginIsFirstFix ==
  IF WithFix = {}
  THEN get_px4_origin = NoPosition
  ELSE LET first == CHOOSE i \in WithFix : \A j \in WithFix : i <= j IN
       /\ get_px4_origin = position_updates[first]
       /\ origin_set

C20_Witness ==
  /\ Len(position_updates) = 3
  /\ position_updates[1].latitude # 0 /\ position_updates[1].longitude = 0
  /\ position_updates[2] = Fix(47, 8, 488)
  /\ position_updates[3] = Fix(48, 8, 0)
  /\ get_px4_origin = Fix(47, 8, 488)

\* C21: connected is true exactly when a dial has returned (the backend
\* holds a MAVSDK session), a connection-state poll has reported
\* is_connected=true, and collector tasks are started (running, or cancelled
\* and being joined).
C21_ConnectedIffSessionPolledCollecting ==
  connected <=> (call.session /\ call.polled /\ (running_batches > 0 \/ dpc = "gathering"))

\* C22: every connect() that returns true leaves the backend connected with
\* exactly six collector tasks running, one per stream.
C22_ConnectIdempotent ==
  [][(call.pc = "polling" /\ call'.pc = "returned" /\ call'.ret = "true") =>
       (connected' /\ telemetry_tasks' = StreamsCollected)]_vars

\* C23: a connect() call that has reached the connection-state poll
\* eventually returns, also when no poll ever reports is_connected=true.
C23_ConnectEventuallyReturns == (call.pc = "polling") ~> (call.pc = "returned")

\* The endpoints in the stated priority order when no Docker bridge and no
\* SITL container exist: the environment override, then localhost UDP-in,
\* localhost UDP-out and broadcast UDP-in.
Endpoints(env) ==
  (IF env # "None" THEN <<env>> ELSE <<>>)
  \o <<"udpin://127.0.0.1:14540", "udpout://127.0.0.1:14550", "udpin://0.0.0.0:14550">>

\* C24: connect() dials the endpoints in priority order, the environment
\* override first; it has dialled every one of them when it returns false,
\* and when it returns true it has stored the endpoint that succeeded.
C24_EndpointsTriedInOrder ==
  call.pc # "idle" =>
    /\ \A k \in 1..Len(call.dialled) : call.dialled[k] = Endpoints(call.env)[k]
    /\ (call.pc = "returned" /\ call.ret = "false") =>
         Len(call.dialled) = Len(Endpoints(call.env))
    /\ (call.pc = "returned" /\ call.ret = "true") =>
         call.connection_string = call.dialled[Len(call.dialled)]

\* C25: the step that completes disconnect() leaves no collector running,
\* the snapshot and the origin empty and connected false; and no position is
\* written while connected is false, i.e. between a completed disconnect()
\* and the next successful connect().
C25_DisconnectLeavesNothingRunning ==
  [][/\ (dpc = "gathering" /\ dpc' = "idle") =>
          /\ running_batches' = 0
          /\ ~connected'
          /\ telemetry_position' = NoPosition
          /\ get_px4_origin' = NoPosition
     /\ Len(position_updates') > Len(position_updates) => connected]_vars

\* C26: get_px4_origin() is the latched origin or None, never the default;
\* get_telemetry() always carries a px4_origin: the latched one when there is
\* one, else the default; and its connected field is the backend's flag.
C26_OriginWithAndWithoutDefault ==
  /\ get_telemetry.connected = connected
  /\ get_telemetry.px4_origin.valid
  /\ IF origin_set
     THEN /\ get_px4_origin = px4_origin
          /\ get_px4_origin.valid
          /\ get_telemetry.px4_origin = px4_origin
     ELSE /\ get_px4_origin = NoPosition
          /\ get_telemetry.px4_origin = DefaultOrigin

C26_Witness ==
  /\ connected
  /\ ~origin_set
  /\ telemetry_position.valid
  /\ get_telemetry.px4_origin = DefaultOrigin
  /\ get_px4_origin = NoPosition

\* ------------------------------------------------- handler claims, again
\* C30: no exception leaves a handler's execute: whenever a telemetry read
\* or an autopilot action raised in it, the handler has returned a
\* CommandResult with success=false and the error set from the exception.
C30_HandlersNeverThrow ==
  /\ h.pc # "raised"
  /\ h.exc # "None" =>
       /\ h.pc = "done"
       /\ ~h.result.success
       /\ h.result.error = h.exc

C30_Witness ==
  /\ h.name = "takeoff"
  /\ h.dispatched = <<"arm">>
  /\ h.exc = "action_error"
  /\ h.pc = "done"

\* ------------------------------------------------------------- API claims
Responded == request.pc = "responded"
TargetMismatch == request.target_drone # 0 /\ request.target_drone # 1

\* C27: a well-formed request that fails a guard is answered with the
\* guard's status, 400 for a target_drone other than the agent's id and 503
\* for a missing executor or backend, and none of its commands is executed.
C27_GuardStatus ==
  (Responded /\ ~request.malformed) =>
    /\ TargetMismatch => (request.status = 400 /\ ~request.dispatched)
    /\ (~TargetMismatch /\ (~request.executor \/ ~request.backend)) =>
         (request.status = 503 /\ ~request.dispatched)

\* The request passed the guards and found the backend disconnected.
FoundDisconnected ==
  /\ ~request.malformed
  /\ ~TargetMismatch
  /\ request.executor
  /\ request.backend
  /\ ~request.conn

\* C28: a request that finds the backend disconnected has called connect()
\* exactly once when it is answered: after True the sequence was dispatched
\* and, unless execute_sequence itself raised, the status is 200; after False
\* or an exception the status is 503 and nothing was dispatched.
C28_ReconnectOnce ==
  (Responded /\ FoundDisconnected) =>
    /\ request.connect_calls = 1
    /\ request.connect_result = "true" =>
         /\ request.dispatched
         /\ request.raised = "None" => request.status = 200
    /\ request.connect_result \in {"false", "raised"} =>
         (request.status = 503 /\ ~request.dispatched)

\* C29: in a 200 response success is the AND of the per-command success
\* values (true for no results), total_commands the number of results and
\* successful_commands the number of successful ones.
C29_ResponseSummary ==
  (Responded /\ request.status = 200) =>
    LET failed == {k \in 1..Len(request.results) : ~request.results[k]} IN
    /\ request.body.success = (failed = {})
    /\ request.body.total_commands = Len(request.results)
    /\ request.body.successful_commands = Len(request.results) - Cardinality(failed)

C29_Witness ==
  /\ Responded
  /\ request.status = 200
  /\ request.results = <<TRUE, FALSE>>
  /\ request.body = [success |-> FALSE, total_commands |-> 2, successful_commands |-> 1]

\* ---------------------------------------------------------- registry claims
\* C31: validate_params returns the empty list for a name without a
\* validator, also when the name has a handler; a name with a schema and no
\* handler is listed by get_command_info while get_command_class returns None
\* for it, and a name with a handler needs no schema.
C31_HandlersAndSchemasIndependent ==
  /\ (registry.asked = "validate_params" /\ registry.name \notin registry.validators)
       => registry.errors = <<>>
  /\ registry.asked = "get_command_info" =>
       \A name \in RegistryNames :
         /\ name \in registry.schemas \ registry.commands =>
              /\ \E e \in registry.info : e.name = name /\ ~e.has_implementation
              /\ CommandRegistry_get_command_class(registry, name) = "None"
         /\ name \in registry.commands \ registry.schemas =>
              /\ \E e \in registry.info : e.name = name /\ ~e.has_schema
              /\ CommandRegistry_validate_params(registry, name, "schema_invalid") = <<>>
  /\ (registry.asked = "get_command_class" /\ registry.name \notin registry.commands)
       => registry.class = "None"

C31_Witness ==
  /\ registry.asked = "get_command_info"
  /\ registry.commands = {"takeoff"}
  /\ registry.schemas = {"goto"}
  /\ registry.validators = {"goto"}
  /\ Cardinality(registry.info) = 2

\* -------------------------------------------------------------- goto claims
\* C32: a goto whose map carries the three GPS keys and some NED key, or no
\* complete triple, is rejected at construction, and the executor's result
\* for it carries error=invalid_parameters.
C32_ExactlyOneCoordinateMode ==
  LET keys == DOMAIN goto.params IN
  (goto.pc # "idle"
     /\ \/ (GpsKeys \subseteq keys /\ keys \cap NedKeys # {})
        \/ (~(GpsKeys \subseteq keys) /\ ~(NedKeys \subseteq keys)))
    => (goto.pc = "rejected" /\ goto.reported = "invalid_parameters")

\* C33: the origin a NED goto converts with is the live origin when the
\* fetch succeeded, else the backend's latched origin when there is one, else
\* the default.
C33_OriginFallbackOrder ==
  (goto.branch = "NED" /\ goto.pc = "action") =>
    /\ goto.fetched = "live" => goto.origin \in LiveOrigins
    /\ (goto.fetched # "live" /\ goto.latched.valid) => goto.origin = goto.latched
    /\ (goto.fetched # "live" /\ ~goto.latched.valid) => goto.origin = SitlDefaultOrigin

\* C40: once execute has chosen its branch for a map the construction check
\* accepted, the branch is the mode that was validated, and every key it
\* reads was present.
C40_ValidatedModeIsExecutedMode ==
  goto.branch # "None" =>
    /\ goto.branch = goto.validated
    /\ goto.branch = "GPS" => GpsKeys \subseteq DOMAIN goto.params
    /\ goto.branch = "NED" => NedKeys \subseteq DOMAIN goto.params

\* --------------------------------------------------------- telemetry claims
\* C34: a step of one collector leaves the slots of the other five as they
\* were; a message whose processing fails leaves the collector's own slot at
\* its previous value and the collectors running; and a slot only ever takes
\* a value whose fields all come from one message.
C34_DecodeErrorIsolated ==
  [][LET s == processed'.stream IN
     /\ \A t \in Streams \ {s} : telemetry_state'[t] = telemetry_state[t]
     /\ processed'.errors > processed.errors =>
          /\ telemetry_state' = telemetry_state
          /\ collectors' = collectors
     /\ \A t \in Streams :
          \/ telemetry_state'[t] = EmptyParams
          \/ \E m \in Messages : telemetry_state'[t] = Whole(t, m)]_vars

C34_Witness ==
  /\ processed = [stream |-> "battery", errors |-> 1]
  /\ telemetry_state.battery = Whole("battery", 1)
  /\ telemetry_state.position = Whole("position", 2)
  /\ telemetry_state.armed = EmptyParams
  /\ collectors = 1

\* ------------------------------------------------- handler claims, continued
\* The actions of a takeoff, in the order of the source.
TakeoffActions == <<"arm", "set_takeoff_altitude", "takeoff">>

\* C35: a takeoff that finds the backend connected and the drone on the
\* ground dispatches arm, set_takeoff_altitude(altitude) and takeoff in this
\* order; when one of them fails the handler returns a failure and nothing
\* further is dispatched.
C35_TakeoffActionOrder ==
  h.name = "takeoff" =>
    /\ Len(h.dispatched) <= 3
    /\ h.dispatched = SubSeq(TakeoffActions, 1, Len(h.dispatched))
    /\ (h.conn /\ h.alt >= 0 /\ is_on_ground(h.alt)) => Len(h.dispatched) >= 1
    /\ Len(h.dispatched) >= 2 => h.takeoff_altitude = h.params.altitude
    /\ h.exc = "action_error" => (h.pc = "done" /\ ~h.result.success)
    /\ (h.pc = "sleep" \/ (h.pc = "done" /\ h.result.success /\ h.dispatched # <<>>))
         => h.dispatched = TakeoffActions

C35_Witness ==
  /\ h.name = "takeoff"
  /\ h.params.altitude = 20
  /\ h.dispatched = <<"arm", "set_takeoff_altitude">>
  /\ h.exc = "action_error"
  /\ h.pc = "done"

\* C36: wait opens no telemetry stream and dispatches no action, with the
\* backend connected or not, and the result it returns when its sleep is
\* over is a success.
C36_WaitIgnoresBackend ==
  h.name = "wait" =>
    /\ h.reads = {}
    /\ h.dispatched = <<>>
    /\ h.pc \in {"sleep", "done"}
    /\ h.pc = "done" => (h.result.success /\ h.result.error = "None")

C36_Witness ==
  /\ h.name = "wait"
  /\ ~h.conn
  /\ ~connected
  /\ h.pc = "done"
  /\ h.result.success

\* ------------------------------------------------ executor claims, continued
\* C37: within one execute_sequence call the emergency RTL is triggered at
\* most once, and only for a command of mode CRITICAL that has failed: never
\* for a failed CONTINUE or SKIP command, never in a call whose commands all
\* succeed.
C37_RtlOnlyAfterCriticalFailure ==
  \A t \in Callers :
    LET rtl == EvAt(t, "emergency_rtl") IN
    /\ Cardinality(rtl) <= 1
    /\ \A k \in rtl :
         /\ cmds[t][log[t][k].cmd].mode = "critical"
         /\ Failed(t, log[t][k].cmd)

C37_Witness ==
  \E t \in Callers :
    /\ pc[t] = "returned"
    /\ Len(cmds[t]) = 2
    /\ cmds[t][1].mode = "continue"
    /\ Invalid(t, 1)
    /\ Unknown(t, 2)
    /\ EvAt(t, "emergency_rtl") # {}
    /\ Len(results[t]) = 2

\* ------------------------------------------------- backend claims, continued
\* C38: whatever the interleaving of connect() and disconnect(), no collector
\* task runs while connected is false, and every running collector task is in
\* the backend's task set, where a later disconnect() finds and cancels it.
C38_CollectorsTrackedAndStopped ==
  /\ ~connected => running_batches = 0
  /\ untracked = 0

\* ------------------------------------------------- handler claims, continued
\* C39: the handlers agree on what is on the ground and what is airborne: a
\* takeoff that has read the altitude has dispatched exactly when land would
\* answer that the drone is on the ground already, and a goto or yaw has
\* accepted the altitude as airborne exactly when land would dispatch.
C39_GroundAndAirborneAgree ==
  h.alt >= 0 =>
    /\ h.name = "takeoff" => (h.dispatched # <<>> <=> ~is_airborne(h.alt))
    /\ h.name \in {"goto", "yaw"} =>
         (h.exc # "requires_airborne" <=> is_airborne(h.alt))

====
